---- MODULE Spec2Model ----
(***************************************************************************)
(* Model of fltk/nets/util/model.py: flattening and recovering model       *)
(* parameters, loading and saving state dictionaries, and the evaluation   *)
(* wrapper test_model.                                                     *)
(*                                                                         *)
(* A tensor is a record [shape, at]: shape is the sequence of dimension    *)
(* sizes and at maps every index tuple (0-based, one index per dimension)  *)
(* to the element stored there.  Row-major order is therefore something    *)
(* the operators below have to compute, not something the representation   *)
(* gives for free.                                                         *)
(***************************************************************************)
EXTENDS Integers, Sequences, FiniteSets, TLC

\* ------------------------------------------------------------------ bounds
\* most parameters of a model, most dimensions of a parameter, and most
\* elements of all parameters of a model together
MaxParams == 2
MaxRank == 2
MaxTotal == 4

\* element values: two are enough to tell any two positions apart
Values == {0, 1}

\* ------------------------------------------------------- tensor primitives
RECURSIVE Numel(_)
\* number of elements of a tensor of the given shape (1 for a 0-dim tensor)
Numel(shape) ==
  IF shape = <<>> THEN 1 ELSE Head(shape) * Numel(Tail(shape))

IndexTuples(shape) ==
  {idx \in [1..Len(shape) -> 0..Numel(shape)] : \A i \in 1..Len(shape) : idx[i] < shape[i]}

RECURSIVE Ravel(_, _)
\* row-major linear offset of an index tuple
Ravel(idx, shape) ==
  IF shape = <<>> THEN 0
  ELSE Head(idx) * Numel(Tail(shape)) + Ravel(Tail(idx), Tail(shape))

\* index tuple of the k-th element in row-major order
Unravel(k, shape) ==
  [i \in 1..Len(shape) |->
     (k \div Numel(SubSeq(shape, i + 1, Len(shape)))) % shape[i]]

Ok(v) == [raised |-> "none", value |-> v]
Raise(e) == [raised |-> e, value |-> <<>>]
Pending == [raised |-> "pending", value |-> <<>>]

\* index tuple of the k-th element in column-major order
UnravelColumnMajor(k, shape) ==
  [i \in 1..Len(shape) |-> (k \div Numel(SubSeq(shape, 1, i - 1))) % shape[i]]

\* a flatten that walks the first dimension fastest
torch_flatten_column_major(p) ==
  [shape |-> <<Numel(p.shape)>>,
   at |-> [idx \in IndexTuples(<<Numel(p.shape)>>) |->
             p.at[UnravelColumnMajor(idx[1], p.shape)]]]

\* torch.flatten(p): a 1-dim tensor holding p's elements in row-major order
torch_flatten(p) ==
  [shape |-> <<Numel(p.shape)>>,
   at |-> [idx \in IndexTuples(<<Numel(p.shape)>>) |-> p.at[Unravel(idx[1], p.shape)]]]

RECURSIVE SumLen(_, _)
\* total length of the first n 1-dim tensors of a list
SumLen(list, n) ==
  IF n = 0 THEN 0 ELSE SumLen(list, n - 1) + list[n].shape[1]

\* torch.cat(list) on 1-dim tensors; an empty list raises
torch_cat(list) ==
  IF Len(list) = 0 THEN Raise("RuntimeError")
  ELSE LET total == SumLen(list, Len(list))
           owner(k) == CHOOSE j \in 1..Len(list) :
                          /\ SumLen(list, j - 1) <= k
                          /\ k < SumLen(list, j)
       IN Ok([shape |-> <<total>>,
              at |-> [idx \in IndexTuples(<<total>>) |->
                        list[owner(idx[1])].at[<<idx[1] - SumLen(list, owner(idx[1]) - 1)>>]]])

\* Tensor.view(*shape) on a contiguous tensor; -1 stands for the inferred size
view(t, shape) ==
  LET known == Numel([i \in 1..Len(shape) |-> IF shape[i] = -1 THEN 1 ELSE shape[i]])
      target == [i \in 1..Len(shape) |->
                   IF shape[i] = -1 THEN Numel(t.shape) \div known ELSE shape[i]]
  IN IF Numel(target) # Numel(t.shape) THEN Raise("RuntimeError")
     ELSE Ok([shape |-> target,
              at |-> [idx \in IndexTuples(target) |->
                        t.at[Unravel(Ravel(idx, target), t.shape)]]])

Min(a, b) == IF a < b THEN a ELSE b

\* t[a:e]: a slice along dimension 0, bounds clamped as Python slices are
slice(t, a, e) ==
  LET n == t.shape[1]
      lo == Min(a, n)
      hi == Min(e, n)
      len == IF hi > lo THEN hi - lo ELSE 0
      shp == <<len>> \o Tail(t.shape)
  IN [shape |-> shp,
      at |-> [idx \in IndexTuples(shp) |-> t.at[[idx EXCEPT ![1] = @ + lo]]]]

\* ------------------------------------------------------------ flatten_params
\* model_description.parameters() / model_description.values(): the tensors in
\* registration (insertion) order; the keys play no part
parameters(md) == [i \in 1..Len(md.entries) |-> md.entries[i].tensor]

flatten_params(md) ==
  LET parameter_list == [i \in 1..Len(md.entries) |-> torch_flatten(parameters(md)[i])]
      cat == torch_cat(parameter_list)
  IN IF cat.raised # "none" THEN cat ELSE view(cat.value, <<-1, 1>>)

\* --------------------------------------------------------- recover_flattened
RECURSIVE IndicesLoop(_, _, _, _)
\* the first loop of recover_flattened (lines 41-46); param.shape[0] raises
\* IndexError on a 0-dim parameter
IndicesLoop(params, i, acc_size, indices) ==
  IF i > Len(params) THEN Ok(indices)
  ELSE IF params[i].shape = <<>> THEN [raised |-> "IndexError", value |-> indices]
  ELSE LET size == params[i].shape[1]
       IN IndicesLoop(params, i + 1, acc_size + size,
                      Append(indices, <<acc_size, acc_size + size>>))

RECURSIVE ViewLoop(_, _, _)
\* the second loop (lines 48-49): reshape every slice to its parameter's shape
ViewLoop(params, recovered_params, indx) ==
  IF indx > Len(params) THEN Ok(recovered_params)
  ELSE LET v == view(recovered_params[indx], params[indx].shape)
       IN IF v.raised # "none" THEN Raise(v.raised)
          ELSE ViewLoop(params, [recovered_params EXCEPT ![indx] = v.value], indx + 1)

recover_flattened(flat_params, md) ==
  LET params == parameters(md)
      loop == IndicesLoop(params, 1, 0, <<>>)
  IN IF loop.raised # "none"
     THEN [raised |-> loop.raised, indices |-> loop.value, value |-> <<>>]
     ELSE LET indices == loop.value
              recovered_params == [k \in 1..Len(indices) |->
                                     slice(flat_params, indices[k][1], indices[k][2])]
              res == ViewLoop(params, recovered_params, 1)
          IN [raised |-> res.raised, indices |-> indices, value |-> res.value]

\* ------------------------------------------------------------------- inputs
\* shapes of at most m elements
ShapesUpTo(m) ==
  {s \in UNION {[1..r -> 1..m] : r \in 0..MaxRank} : Numel(s) <= m}

RECURSIVE TotalNumel(_)
TotalNumel(shapes) ==
  IF shapes = <<>> THEN 0 ELSE Numel(Head(shapes)) + TotalNumel(Tail(shapes))

\* the shapes of the parameters of a model of n parameters
ShapeSeqs(n) ==
  {ss \in [1..n -> ShapesUpTo(MaxTotal - (n - 1))] : TotalNumel(ss) <= MaxTotal}

\* one cell per element of every parameter
Cells(shapes) ==
  UNION {{<<i, idx>> : idx \in IndexTuples(shapes[i])} : i \in 1..Len(shapes)}

\* key sequences of an OrderedDict: distinct keys in any insertion order; a
\* Module yields its parameters in registration order
KeySeqs(kd, n) ==
  IF kd = "Module" THEN {[i \in 1..n |-> i]}
  ELSE {ks \in [1..n -> 1..n] : \A i, j \in 1..n : ks[i] = ks[j] => i = j}

ModelDescription(kd, ks, shapes, content) ==
  [kind |-> kd,
   entries |-> [i \in 1..Len(shapes) |->
                  [key |-> ks[i],
                   tensor |-> [shape |-> shapes[i],
                               at |-> [idx \in IndexTuples(shapes[i]) |-> content[<<i, idx>>]]]]]]

\* ------------------------------------------------------- files and models
\* Paths and names are text, built by concatenation as the f-strings do.
MaxEpoch == 1

Epochs == 0..MaxEpoch

\* a decimal digit as text
Digit(d) == <<"0", "1", "2", "3", "4", "5", "6", "7", "8", "9">>[d + 1]

RECURSIVE Str(_)
\* str(n) of an integer
Str(n) ==
  IF n < 0 THEN "-" \o Str(0 - n)
  ELSE IF n < 10 THEN Digit(n)
  ELSE Str(n \div 10) \o Digit(n % 10)

\* model classes, by __name__
ClassNames == {"Net", "Net_1"}

\* the keys of the state dictionary of an instance of each class
StateKeys(cls) == IF cls = "Net" THEN {"weight"} ELSE {"kernel"}

StateDicts(cls) == [StateKeys(cls) -> Values]

\* directory arguments of save_model: ./ckpt exists, ./gone does not
Directories == {"ckpt", "gone"}

\* values of conf.get_default_model_folder_path(): the first exists
DefaultFolders == {"default_models", "no_models"}

\* f"./{directory}/{model.__class__.__name__}_{epoch}.pth" with the epoch
\* left out
full_save_path_without_epoch(directory, name, epoch) ==
  "./" \o directory \o "/" \o name \o ".pth"

\* f"./{directory}/{model.__class__.__name__}_{epoch}.pth"
full_save_path(directory, name, epoch) ==
  "./" \o directory \o "/" \o name \o "_" \o Str(epoch) \o ".pth"

\* f"{conf.get_default_model_folder_path()}/{model_class.__name__}.model"
default_model_path(folder, name) == folder \o "/" \o name \o ".model"

\* A file system maps the paths that exist to what is there.
NoFile == [kind |-> "none", data |-> <<>>]
Dir == [kind |-> "dir", data |-> <<>>]
File(d) == [kind |-> "file", data |-> d]
\* a regular file that holds no pickled object
Garbage == [kind |-> "garbage", data |-> <<>>]

Lookup(fsv, path) == IF path \in DOMAIN fsv THEN fsv[path] ELSE NoFile

\* the directory part of a path
Parent(path) ==
  LET cut == {i \in 1..Len(path) : SubSeq(path, i, i) = "/"}
      last == CHOOSE i \in cut : \A j \in cut : j <= i
  IN IF cut = {} THEN "." ELSE SubSeq(path, 1, last - 1)

\* Path.is_file()
is_file(fsv, path) == Lookup(fsv, path).kind \in {"file", "garbage"}

\* torch.load(path): the object pickled in the file
torch_load(fsv, path) ==
  IF Lookup(fsv, path).kind = "none" THEN Raise("FileNotFoundError")
  ELSE IF Lookup(fsv, path).kind = "dir" THEN Raise("IsADirectoryError")
  ELSE IF Lookup(fsv, path).kind = "garbage" THEN Raise("UnpicklingError")
  ELSE Ok(Lookup(fsv, path).data)

\* torch.save(obj, path): [raised, fs]
torch_save(fsv, obj, path) ==
  IF Lookup(fsv, Parent(path)).kind # "dir"
  THEN [raised |-> "FileNotFoundError", fs |-> fsv]
  ELSE IF Lookup(fsv, path).kind = "dir"
  THEN [raised |-> "IsADirectoryError", fs |-> fsv]
  ELSE [raised |-> "none",
        fs |-> [q \in DOMAIN fsv \cup {path} |-> IF q = path THEN File(obj) ELSE fsv[q]]]

\* Module.load_state_dict(sd), strict: the tensors of the keys both sides
\* have are copied in place, then missing or unexpected keys raise
load_state_dict(state, sd) ==
  [raised |-> IF DOMAIN sd = DOMAIN state THEN "none" ELSE "RuntimeError",
   state |-> [k \in DOMAIN state |-> IF k \in DOMAIN sd THEN sd[k] ELSE state[k]]]

\* the try block of load_model_from_file (lines 84-87): any exception of
\* the load is caught and logged
TryLoad(state, fsv, model_file_path) ==
  LET loaded == torch_load(fsv, model_file_path)
  IN [raised |-> "none",
      state |-> IF loaded.raised # "none" THEN state
                ELSE load_state_dict(state, loaded.value).state,
      torch_load_called |-> TRUE]

\* a load_model_from_file that only logs when the file is missing
load_model_from_file_only_warns(state, fsv, model_file_path) ==
  IF is_file(fsv, model_file_path) THEN TryLoad(state, fsv, model_file_path)
  ELSE [raised |-> "none", state |-> state, torch_load_called |-> FALSE]

\* load_model_from_file(model, model_file_path): [raised, state,
\* torch_load_called], state being the model's state afterwards
load_model_from_file(state, fsv, model_file_path) ==
  IF is_file(fsv, model_file_path) THEN TryLoad(state, fsv, model_file_path)
  ELSE [raised |-> "FileExistsError", state |-> state, torch_load_called |-> FALSE]

\* a save_model that writes to the path without the epoch
save_model_without_epoch(state, name, fsv, directory, epoch) ==
  torch_save(fsv, state, full_save_path_without_epoch(directory, name, epoch))

\* save_model(model, directory, epoch): [raised, fs]
save_model(state, name, fsv, directory, epoch) ==
  torch_save(fsv, state, full_save_path(directory, name, epoch))

\* an initialize_default_model that catches the exceptions of the load
initialize_default_model_swallow(fresh, fsv, folder, name) ==
  LET loaded == torch_load(fsv, default_model_path(folder, name))
  IN IF loaded.raised # "none" THEN Ok([cls |-> name, state |-> fresh])
     ELSE Ok([cls |-> name, state |-> load_state_dict(fresh, loaded.value).state])

\* initialize_default_model(conf, model_class): [raised, value]; fresh is the
\* state model_class() constructs, folder is conf.get_default_model_folder_path()
initialize_default_model(fresh, fsv, folder, name) ==
  LET loaded == torch_load(fsv, default_model_path(folder, name))
  IN IF loaded.raised # "none" THEN Raise(loaded.raised)
     ELSE LET res == load_state_dict(fresh, loaded.value)
          IN IF res.raised # "none" THEN Raise(res.raised)
             ELSE Ok([cls |-> name, state |-> res.state])

\* --------------------------------------------------------------- test_model
MaxCalls == 2

\* the writer argument: None (the default) or a SummaryWriter
Writers == {"None", "SummaryWriter"}

\* what model.test() returns: accuracy, loss, class_precision, class_recall
TestResults == Values \X Values \X Values \X Values

Call(fn, tag, value, step) == [call |-> fn, tag |-> tag, value |-> value, step |-> step]

\* the EpochData of lines 109-118
EpochData(epoch_id, accuracy, loss, class_precision, class_recall) ==
  [epoch_id |-> epoch_id, duration_train |-> 0, duration_test |-> 0,
   loss_train |-> 0, accuracy |-> accuracy, loss |-> loss,
   class_precision |-> class_precision, class_recall |-> class_recall,
   confusion_mat |-> "None", num_epochs |-> 0]

\* a test_model that writes the scalar whether or not a writer was given
test_model_always_writes(results, epoch, writer) ==
  [data |-> EpochData(epoch, results[1], results[2], results[3], results[4]),
   calls |-> <<Call("model.test", "", 0, 0),
               Call("writer.add_scalar", "accuracy per epoch", results[1], epoch)>>]

\* test_model(model, epoch, writer), results being what model.test() returns:
\* [data, calls], the value returned and the calls made, in order
test_model(results, epoch, writer) ==
  [data |-> EpochData(epoch, results[1], results[2], results[3], results[4]),
   calls |-> <<Call("model.test", "", 0, 0)>>
               \o (IF writer # "None"
                   THEN <<Call("writer.add_scalar", "accuracy per epoch", results[1], epoch)>>
                   ELSE <<>>)]

\* -------------------------------------------------------------------- state
VARIABLES pc, model_description, flat_params, recovered,
          fs, models, lastOp, lastSaved,
          calls, data, lastCall, numCalls

flat_vars == <<pc, model_description, flat_params, recovered>>
io_vars == <<fs, models, lastOp, lastSaved>>

test_vars == <<calls, data, lastCall, numCalls>>

vars == <<flat_vars, io_vars, test_vars>>

NotRecovered == [raised |-> "pending", indices |-> <<>>, value |-> <<>>]

\* the instances the operations are applied to
Instances == {"m", "m2"}

\* what the last operation was called with and how it ended
NoOp ==
  [op |-> "none", inst |-> "", path |-> "", directory |-> "", epoch |-> 0,
   name |-> "", raised |-> "none", torch_load_called |-> FALSE,
   replaced |-> FALSE, changed |-> FALSE, ret |-> <<>>]

Pairs == ClassNames \X Epochs

FlatIdle ==
  /\ pc = "idle"
  /\ model_description = [kind |-> "Module", entries |-> <<>>]
  /\ flat_params = Pending
  /\ recovered = NotRecovered

TestIdle ==
  /\ calls = <<>>
  /\ data = <<>>
  /\ lastCall = <<>>
  /\ numCalls = 0

IOIdle ==
  /\ fs = <<>>
  /\ models = [i \in Instances |-> [cls |-> "Net", state |-> [k \in StateKeys("Net") |-> 0]]]
  /\ lastOp = NoOp
  /\ lastSaved = [q \in Pairs |-> NoFile]

InitFlat ==
  /\ pc = "start"
  /\ \E kd \in {"Module", "OrderedDict"}, n \in 0..MaxParams :
       \E ks \in KeySeqs(kd, n), shapes \in ShapeSeqs(n) :
         \E content \in [Cells(shapes) -> Values] :
           model_description = ModelDescription(kd, ks, shapes, content)
  /\ flat_params = Pending
  /\ recovered = NotRecovered
  /\ IOIdle
  /\ TestIdle

\* flat_params = flatten_params(model_description)
FlattenParams ==
  /\ pc = "start"
  /\ flat_params' = flatten_params(model_description)
  /\ pc' = "flattened"
  /\ UNCHANGED <<model_description, recovered, io_vars, test_vars>>

\* recovered = recover_flattened(flat_params, model_description); the second
\* argument is a torch.nn.Module
RecoverFlattened ==
  /\ pc = "flattened"
  /\ flat_params.raised = "none"
  /\ model_description.kind = "Module"
  /\ recovered' = recover_flattened(flat_params.value, model_description)
  /\ pc' = "recovered"
  /\ UNCHANGED <<model_description, flat_params, io_vars, test_vars>>

NextFlat == FlattenParams \/ RecoverFlattened

SpecFlat == InitFlat /\ [][NextFlat]_vars

\* ---------------------------------------------------- checkpoints on disk
\* any instance of any class in any state
ModelInstances ==
  UNION {{[cls |-> c, state |-> st] : st \in StateDicts(c)} : c \in ClassNames}

\* ./ckpt exists and holds an unreadable file left by an earlier run
InitCkpt ==
  /\ FlatIdle
  /\ TestIdle
  /\ fs = [q \in {"./ckpt", "./ckpt/old.pth"} |-> IF q = "./ckpt" THEN Dir ELSE Garbage]
  /\ models \in [Instances -> ModelInstances]
  /\ lastOp = NoOp
  /\ lastSaved = [q \in Pairs |-> NoFile]

\* the paths load_model_from_file is called with: the checkpoints of ./ckpt,
\* the unreadable file, a directory and a path where nothing is
LoadPaths ==
  {full_save_path("ckpt", c, e) : c \in ClassNames, e \in Epochs}
    \cup {"./ckpt/old.pth", "./ckpt", "./gone/Net_0.pth"}

\* save_model(models[i], directory, epoch); lastSaved keeps, for ./ckpt, what
\* the last completed save of every (class name, epoch) was given
SaveModel(i, directory, epoch) ==
  LET res == save_model(models[i].state, models[i].cls, fs, directory, epoch)
      target == full_save_path(directory, models[i].cls, epoch)
  IN /\ fs' = res.fs
     /\ lastOp' = [NoOp EXCEPT !.op = "save_model", !.inst = i,
                                !.directory = directory, !.epoch = epoch,
                                !.name = models[i].cls, !.raised = res.raised,
                                !.replaced = (/\ res.raised = "none"
                                              /\ Lookup(fs, target).kind = "file"
                                              /\ Lookup(fs, target) # File(models[i].state))]
     /\ lastSaved' = IF res.raised = "none" /\ directory = "ckpt"
                      THEN [lastSaved EXCEPT ![<<models[i].cls, epoch>>] =
                                               File(models[i].state)]
                      ELSE lastSaved
     /\ UNCHANGED <<models, flat_vars, test_vars>>

\* load_model_from_file(models[i], path)
LoadModelFromFile(i, path) ==
  LET res == load_model_from_file(models[i].state, fs, path)
  IN /\ models' = [models EXCEPT ![i].state = res.state]
     /\ lastOp' = [NoOp EXCEPT !.op = "load_model_from_file", !.inst = i,
                                !.path = path, !.raised = res.raised,
                                !.torch_load_called = res.torch_load_called,
                                !.changed = (res.state # models[i].state)]
     /\ UNCHANGED <<fs, lastSaved, flat_vars, test_vars>>

NextCkpt ==
  \/ \E i \in Instances, d \in Directories, e \in Epochs : SaveModel(i, d, e)
  \/ \E i \in Instances, path \in LoadPaths : LoadModelFromFile(i, path)

SpecCkpt == InitCkpt /\ [][NextCkpt]_vars

\* ------------------------------------------------------- the default model
\* what may lie at the path of a class's default model
DefaultFiles ==
  {NoFile, Garbage} \cup {File(m.state) : m \in ModelInstances}

InitDefault ==
  /\ FlatIdle
  /\ TestIdle
  /\ \E content \in [ClassNames -> DefaultFiles] :
       fs = [q \in {"default_models"}
                     \cup {default_model_path("default_models", c) :
                             c \in {k \in ClassNames : content[k].kind # "none"}} |->
               IF q = "default_models" THEN Dir
               ELSE content[CHOOSE c \in ClassNames :
                              q = default_model_path("default_models", c)]]
  /\ models = [i \in Instances |-> [cls |-> "Net", state |-> [k \in StateKeys("Net") |-> 0]]]
  /\ lastOp = NoOp
  /\ lastSaved = [q \in Pairs |-> NoFile]

\* ret = initialize_default_model(conf, model_class)
InitializeDefaultModel(folder, name, fresh) ==
  LET res == initialize_default_model(fresh, fs, folder, name)
  IN /\ lastOp' = [NoOp EXCEPT !.op = "initialize_default_model",
                                !.directory = folder, !.name = name,
                                !.raised = res.raised, !.ret = res.value]
     /\ UNCHANGED <<fs, models, lastSaved, flat_vars, test_vars>>

NextDefault ==
  \E folder \in DefaultFolders, name \in ClassNames :
    \E fresh \in StateDicts(name) : InitializeDefaultModel(folder, name, fresh)

SpecDefault == InitDefault /\ [][NextDefault]_vars

\* ------------------------------------------------------------- evaluation
\* calls lists every call made on the model and the writer so far, data is
\* what the last test_model returned
InitTest ==
  /\ FlatIdle
  /\ IOIdle
  /\ TestIdle

\* data = test_model(model, epoch, writer)
TestModel(results, epoch, writer) ==
  LET res == test_model(results, epoch, writer)
  IN /\ numCalls < MaxCalls
     /\ calls' = calls \o res.calls
     /\ data' = res.data
     /\ lastCall' = [results |-> results, epoch |-> epoch, writer |-> writer]
     /\ numCalls' = numCalls + 1
     /\ UNCHANGED <<flat_vars, io_vars>>

NextTest ==
  \E results \in TestResults, epoch \in Epochs, writer \in Writers :
    TestModel(results, epoch, writer)

SpecTest == InitTest /\ [][NextTest]_vars

\* ------------------------------------------------- claims on flatten/recover
NumParams == Len(model_description.entries)

Param(i) == model_description.entries[i].tensor

RECURSIVE ElementsBefore(_)
\* number of elements of the parameters in front of the i-th
ElementsBefore(i) ==
  IF i <= 1 THEN 0 ELSE ElementsBefore(i - 1) + Numel(Param(i - 1).shape)

C2_RoundTrip ==
  pc = "recovered" =>
    /\ recovered.raised = "none"
    /\ Len(recovered.value) = NumParams
    /\ \A i \in 1..NumParams : recovered.value[i] = Param(i)

\* C3: flatten_params returns a dictionary with the flattened parameters
\* under "params" and the (start, end) pair of every parameter under
\* "indices".
C3_ReturnsParamsAndIndices ==
  (pc # "start" /\ flat_params.raised = "none") =>
    {"params", "indices"} \subseteq DOMAIN flat_params.value

\* C9: the ranges recover_flattened computes start at 0, are contiguous, the
\* i-th is as long as the i-th parameter has elements, and the last one ends
\* at the length of the flattened vector.
C9_IndicesPartitionTheVector ==
  pc = "recovered" =>
    /\ Len(recovered.indices) = NumParams
    /\ \A i \in 1..NumParams :
         /\ recovered.indices[i][1] = (IF i = 1 THEN 0 ELSE recovered.indices[i - 1][2])
         /\ recovered.indices[i][2] - recovered.indices[i][1] = Numel(Param(i).shape)
    /\ recovered.indices[NumParams][2] = flat_params.value.shape[1]

\* ------------------------------------------------- claims on load and save
\* C4: whenever the path is an existing file and load_model_from_file
\* returns without raising, the model's state is the state dictionary stored
\* in the file.
C4_LoadedStateIsTheFiles ==
  (/\ lastOp.op = "load_model_from_file"
   /\ is_file(fs, lastOp.path)
   /\ lastOp.raised = "none") =>
    /\ Lookup(fs, lastOp.path).kind = "file"
    /\ models[lastOp.inst].state = Lookup(fs, lastOp.path).data

\* C5: when the path is not an existing regular file, load_model_from_file
\* raises FileExistsError, loads nothing and leaves the model as it was.
C5_MissingFileRaises ==
  [][(/\ lastOp'.op = "load_model_from_file"
      /\ ~is_file(fs, lastOp'.path)) =>
       /\ lastOp'.raised = "FileExistsError"
       /\ ~lastOp'.torch_load_called
       /\ models' = models]_vars

\* a load from a path that is a directory, not a regular file
C5_Witness ==
  /\ lastOp.op = "load_model_from_file"
  /\ Lookup(fs, lastOp.path).kind = "dir"
  /\ lastOp.raised = "FileExistsError"

\* C6: after a completed save_model(m, directory, epoch), loading
\* "./{directory}/{class name of m}_{epoch}.pth" into an instance of m's
\* class leaves it in the state m had when it was saved, whatever its state
\* before.
C6_CheckpointRoundTrip ==
  [][(/\ lastOp.op = "save_model"
      /\ lastOp.raised = "none"
      /\ lastOp'.op = "load_model_from_file"
      /\ lastOp'.path = "./" \o lastOp.directory \o "/" \o lastOp.name
                           \o "_" \o Str(lastOp.epoch) \o ".pth"
      /\ models[lastOp'.inst].cls = lastOp.name) =>
       /\ lastOp'.raised = "none"
       /\ models'[lastOp'.inst].state = models[lastOp.inst].state]_vars

\* m2 has just been given, from the checkpoint of epoch 1, a state it did
\* not have before: that of m, an instance of its class
C6_Witness ==
  /\ lastOp.op = "load_model_from_file"
  /\ lastOp.inst = "m2"
  /\ lastOp.changed
  /\ models["m"].cls = models["m2"].cls
  /\ lastOp.path = "./ckpt/" \o models["m"].cls \o "_1.pth"
  /\ models["m2"].state = models["m"].state

\* C10: the checkpoint file of a (class name, epoch) pair holds the state
\* given to the latest completed save_model of that pair, and is there only
\* if there was one: a save of another pair never changes it.
C10_LatestSaveOfThePairIsOnDisk ==
  \A q \in Pairs :
    Lookup(fs, "./ckpt/" \o q[1] \o "_" \o Str(q[2]) \o ".pth") = lastSaved[q]

\* a save has just replaced the earlier checkpoint of its pair by another
\* state while the checkpoint of another pair, of another state, is on disk
C10_Witness ==
  /\ lastOp.op = "save_model"
  /\ lastOp.replaced
  /\ \E q \in Pairs :
       /\ q # <<lastOp.name, lastOp.epoch>>
       /\ lastSaved[q].kind = "file"
       /\ lastSaved[q] # lastSaved[<<lastOp.name, lastOp.epoch>>]

\* C7: initialize_default_model returns an instance of model_class whose
\* state is the state dictionary stored at
\* "{folder}/{class name}.model"; when the file is missing or cannot be
\* loaded the error reaches the caller and nothing is returned.
C7_DefaultModelOrError ==
  lastOp.op = "initialize_default_model" =>
    LET stored == Lookup(fs, lastOp.directory \o "/" \o lastOp.name \o ".model")
    IN IF stored.kind = "file" /\ DOMAIN stored.data = StateKeys(lastOp.name)
       THEN /\ lastOp.raised = "none"
            /\ lastOp.ret = [cls |-> lastOp.name, state |-> stored.data]
       ELSE /\ lastOp.raised # "none"
            /\ lastOp.ret = <<>>

\* the file is there but holds the state of another class: the error of
\* load_state_dict reaches the caller
C7_Witness ==
  /\ lastOp.op = "initialize_default_model"
  /\ Lookup(fs, default_model_path(lastOp.directory, lastOp.name)).kind = "file"
  /\ lastOp.raised = "RuntimeError"
  /\ lastOp.ret = <<>>

\* ------------------------------------------------------ claims on test_model
\* C8: test_model calls model.test() once, returns the EpochData of the
\* epoch and of the four values of model.test() with the durations,
\* loss_train and num_epochs 0 and no confusion matrix, and writes
\* ('accuracy per epoch', accuracy, epoch) once, after the test, exactly when
\* a writer is given.
C8_TestModelReportsOnce ==
  [][numCalls' = numCalls + 1 =>
       LET c == lastCall'
       IN /\ data' = [epoch_id |-> c.epoch, duration_train |-> 0, duration_test |-> 0,
                       loss_train |-> 0, accuracy |-> c.results[1], loss |-> c.results[2],
                       class_precision |-> c.results[3], class_recall |-> c.results[4],
                       confusion_mat |-> "None", num_epochs |-> 0]
          /\ calls' = calls \o <<[call |-> "model.test", tag |-> "", value |-> 0, step |-> 0]>>
                         \o (IF c.writer = "None" THEN <<>>
                             ELSE <<[call |-> "writer.add_scalar",
                                     tag |-> "accuracy per epoch",
                                     value |-> c.results[1], step |-> c.epoch]>>)]_vars

\* a call without a writer after a call with one: only the first wrote
C8_Witness ==
  /\ numCalls = 2
  /\ lastCall.writer = "None"
  /\ lastCall.results = <<1, 0, 1, 0>>
  /\ Len(calls) = 3
  /\ calls[2].call = "writer.add_scalar"
  /\ calls[3].call = "model.test"
  /\ data.accuracy = 1 /\ data.class_recall = 0

====
